---- MODULE Spec2Model ----
(***************************************************************************)
(* converter_bot (main.py): the rate cache with its schedule-aware         *)
(* invalidation (cache, is_cache_expired, get_rates) and the two message   *)
(* handlers that read it (cmd_currencies, convert_handler), run as         *)
(* asyncio tasks on one event loop.  A step of the model is the code a     *)
(* task runs between two suspension points (await).                        *)
(***************************************************************************)
EXTENDS Integers, Sequences, FiniteSets, Bags, TLC

\* ------------------------------------------------------------------ bounds
NumTasks == 2           \* handlers that may be suspended at the same time
MaxDay == 1             \* calendar days 0..MaxDay
MaxLen == 3             \* characters of the texts tried exhaustively

Days == 0..MaxDay

\* Times of day, in minutes since midnight, at which the clock is observed:
\* 10:00, 11:05:00.000000 exactly, 11:10 and 23:00.
Tods == {600, 665, 670, 1380}

\* time(11, 5)
Cutoff == 11 * 60 + 5

\* ------------------------------------------------------------ Python values
\* cache["data"] is None or refers to a dict: << >> or << table >>, the
\* table a function from codes to records.
None == << >>
\* None, as the value of cache["last_date"] (a datetime is <<day, tod>>).
NoDate == << >>

\* A handler's local `rates` is a reference.  Line 136 is the only write to
\* a dict object, and it writes to the object get_rates has just returned,
\* the one cache["data"] refers to; a dict the cache no longer refers to
\* never changes again.  So a reference is to the cache's object ("cache"),
\* or to a dict the cache has dropped, known by its content ("old"), or it
\* is None ("none").
EmptyTable == [k \in {} |-> 0]
RefNone == [at |-> "none", tbl |-> EmptyTable]
RefCache == [at |-> "cache", tbl |-> EmptyTable]
RefOld(tbl) == [at |-> "old", tbl |-> tbl]

\* --------------------------------------------------------- upstream answers
\* Records of the JSON array the rates endpoint returns.
Rec(code, name, rate, scale) ==
    [Cur_Abbreviation |-> code, Cur_Name |-> name,
     Cur_OfficialRate |-> rate, Cur_Scale |-> scale]

\* Bodies of a 200 answer that parses: an empty array, two records, and an
\* array in another order that names one code twice.  A name is the
\* sequence of its characters.
Bodies ==
    { << >>,
      << Rec("USD", << "U", "S", " ", "D", "o", "l", "l", "a", "r" >>, 3, 1),
         Rec("RUB", << "R", "u", "s", "s", "i", "a", "n", " ", "R", "u", "b", "l", "e" >>, 4, 100) >>,
      << Rec("EUR", << "E", "u", "r", "o" >>, 5, 1),
         Rec("USD", << "U", "S", " ", "D", "o", "l", "l", "a", "r" >>, 3, 1),
         Rec("EUR", << "E", "u", "r", "o", " ", "(", "n", "e", "w", ")" >>, 6, 1) >> }

\* How a fetch fails: session.get raises, the status is not 200, resp.json()
\* raises, or the body is not an array of rate objects (the comprehension
\* raises).
FailKinds == {"request_exc", "status", "json_exc", "build_exc"}

\* Alphabetical order of the currency codes (Python's string order).
CodeOrder == << "BYN", "EUR", "RUB", "USD", "XXX" >>

Rank(code) == CHOOSE i \in 1..Len(CodeOrder) : CodeOrder[i] = code

\* ---------------------------------------------------------------- characters
\* A str is the sequence of its characters.
DigitChars == << "0", "1", "2", "3", "4", "5", "6", "7", "8", "9" >>

LowerCase == << "a", "b", "c", "d", "e", "f", "g", "h", "i", "j", "k", "l", "m",
                "n", "o", "p", "q", "r", "s", "t", "u", "v", "w", "x", "y", "z" >>

UpperCase == << "A", "B", "C", "D", "E", "F", "G", "H", "I", "J", "K", "L", "M",
                "N", "O", "P", "Q", "R", "S", "T", "U", "V", "W", "X", "Y", "Z" >>

\* The characters \s matches and str.strip() removes.
Whitespace == {" ", "\n"}

IsDigit(ch) == \E i \in DOMAIN DigitChars : DigitChars[i] = ch

DigitVal(ch) == (CHOOSE i \in DOMAIN DigitChars : DigitChars[i] = ch) - 1

AllDigits(s) == \A i \in DOMAIN s : IsDigit(s[i])

\* [A-Z] under re.I
IsLetter(ch) ==
    \E i \in DOMAIN LowerCase : LowerCase[i] = ch \/ UpperCase[i] = ch

\* str.upper() and str.lower()
Upper(s) ==
    [i \in DOMAIN s |->
        IF \E j \in DOMAIN LowerCase : LowerCase[j] = s[i]
        THEN UpperCase[CHOOSE j \in DOMAIN LowerCase : LowerCase[j] = s[i]]
        ELSE s[i]]

Lower(s) ==
    [i \in DOMAIN s |->
        IF \E j \in DOMAIN UpperCase : UpperCase[j] = s[i]
        THEN LowerCase[CHOOSE j \in DOMAIN UpperCase : UpperCase[j] = s[i]]
        ELSE s[i]]

\* s.replace(old, new), old not empty
RECURSIVE Replace(_, _, _)
Replace(s, old, new) ==
    IF s = << >> THEN << >>
    ELSE IF Len(s) >= Len(old) /\ SubSeq(s, 1, Len(old)) = old
    THEN new \o Replace(SubSeq(s, Len(old) + 1, Len(s)), old, new)
    ELSE << Head(s) >> \o Replace(Tail(s), old, new)

\* s.rstrip(chars)
RECURSIVE RStrip(_, _)
RStrip(s, chars) ==
    IF s # << >> /\ s[Len(s)] \in chars
    THEN RStrip(SubSeq(s, 1, Len(s) - 1), chars)
    ELSE s

RECURSIVE LStrip(_, _)
LStrip(s, chars) ==
    IF s # << >> /\ Head(s) \in chars THEN LStrip(Tail(s), chars) ELSE s

\* s.strip()
Strip(s) == RStrip(LStrip(s, Whitespace), Whitespace)

\* The pieces of s between runs of whitespace.
RECURSIVE Split(_)
Split(s) ==
    LET t == LStrip(s, Whitespace)
        ws == {i \in DOMAIN t : t[i] \in Whitespace}
        end == IF ws = {} THEN Len(t) + 1
               ELSE CHOOSE i \in ws : \A j \in ws : i <= j
    IN  IF t = << >> THEN << >>
        ELSE << SubSeq(t, 1, end - 1) >> \o Split(SubSeq(t, end, Len(t)))

\* int(s) of a string of digits; 0 for the empty string
RECURSIVE IntOf(_)
IntOf(s) ==
    IF s = << >> THEN 0
    ELSE 10 * IntOf(SubSeq(s, 1, Len(s) - 1)) + DigitVal(s[Len(s)])

\* str(n) of a natural number
RECURSIVE StrOf(_)
StrOf(n) ==
    IF n < 10 THEN << DigitChars[n + 1] >>
    ELSE StrOf(n \div 10) \o << DigitChars[(n % 10) + 1] >>

RECURSIVE Pow10(_)
Pow10(n) == IF n = 0 THEN 1 ELSE 10 * Pow10(n - 1)

\* The least element of a non-empty set of integers.
Least(S) == CHOOSE i \in S : \A j \in S : i <= j

\* ------------------------------------------------------------------ Decimal
\* A finite Decimal is (-1)^sign * int * 10^exp; it keeps its exponent
\* (Decimal("5.0") has int 50, exp -1).  Infinity and NaN are values too.
Dec(sign, int, exp) == [kind |-> "num", sign |-> sign, int |-> int, exp |-> exp]

Special(kind, sign) == [kind |-> kind, sign |-> sign, int |-> 0, exp |-> 0]

\* The string is not a number: Decimal() raises InvalidOperation.
Invalid == Special("invalid", 0)

\* The number [sign] intpart [. fracpart] [E [exsign] exdigits], which needs
\* a digit before or after the point and a digit in an exponent.
Finite(sign, intpart, fracpart, hasexp, exneg, exdigits) ==
    IF /\ AllDigits(intpart)
       /\ AllDigits(fracpart)
       /\ Len(intpart) + Len(fracpart) > 0
       /\ hasexp => (exdigits # << >> /\ AllDigits(exdigits))
    THEN Dec(sign, IntOf(intpart \o fracpart),
             (IF exneg THEN 0 - IntOf(exdigits) ELSE IntOf(exdigits))
                - Len(fracpart))
    ELSE Invalid

\* The mantissa is cut at its first point, the exponent loses its sign.
Fraction(sign, mant, hasexp, ex) ==
    LET dots == {i \in DOMAIN mant : mant[i] = "."}
        dpos == IF dots = {} THEN Len(mant) + 1 ELSE Least(dots)
    IN  Finite(sign, SubSeq(mant, 1, dpos - 1),
               SubSeq(mant, dpos + 1, Len(mant)), hasexp,
               ex # << >> /\ ex[1] = "-",
               IF ex # << >> /\ ex[1] \in {"-", "+"} THEN Tail(ex) ELSE ex)

\* The unsigned text u is cut at its first E (the positions es).
Exponent(sign, u, es) ==
    LET epos == IF es = {} THEN Len(u) + 1 ELSE Least(es)
    IN  Fraction(sign, SubSeq(u, 1, epos - 1), es # {},
                 SubSeq(u, epos + 1, Len(u)))

\* The unsigned text u is Inf, Infinity, NaN or sNaN (in any case, NaN with
\* optional digits), or else a number.
Unsigned(sign, u, word) ==
    LET nan == IF word # << >> /\ word[1] = "s" THEN Tail(word) ELSE word
    IN  IF word \in { << "i", "n", "f" >>,
                      << "i", "n", "f", "i", "n", "i", "t", "y" >> }
        THEN Special("inf", sign)
        ELSE IF /\ Len(nan) >= 3
                /\ SubSeq(nan, 1, 3) = << "n", "a", "n" >>
                /\ AllDigits(SubSeq(nan, 4, Len(nan)))
        THEN Special(IF nan = word THEN "nan" ELSE "snan", sign)
        ELSE Exponent(sign, u, {i \in DOMAIN u : u[i] \in {"e", "E"}})

\* The text v loses its sign.
Signed(v, u) == Unsigned(IF v # u /\ v[1] = "-" THEN 1 ELSE 0, u, Lower(u))

\* The text v without a leading sign.
Magnitudes(v) == IF v # << >> /\ v[1] \in {"-", "+"} THEN Tail(v) ELSE v

\* Decimal(s): surrounding whitespace and every underscore are dropped, then
\* the whole string is  [sign] digits [. digits] [E [sign] digits]  with a
\* digit before or after the point, or Inf, Infinity, NaN, sNaN in any case.
DecimalOf(v) == Signed(v, Magnitudes(v))

Decimal(s) == DecimalOf(Replace(Strip(s), << "_" >>, << >>))

\* d == 0 and d > 0 raise InvalidOperation on a signalling NaN, d > 0 and
\* d >= 1 on a quiet NaN too.
IsZero(d) == d.kind = "num" /\ d.int = 0

Positive(d) == d.sign = 0 /\ ~IsZero(d)

\* d >= 1
AtLeastOne(d) ==
    /\ d.sign = 0
    /\ \/ d.kind = "inf"
       \/ /\ d.kind = "num"
          /\ IF d.exp >= 0 THEN d.int >= 1 ELSE d.int >= Pow10(0 - d.exp)

\* abs(d)
Abs(d) == [d EXCEPT !.sign = 0]

\* a * b of finite Decimals
Mul(a, b) == Dec((a.sign + b.sign) % 2, a.int * b.int, a.exp + b.exp)

\* The digits a quotient may take beyond those of the dividend (the context
\* gives 28 significant digits).
DivDigits == 4

\* a / b of finite Decimals whose quotient has a finite expansion within the
\* precision: the exact quotient, its exponent as near a.exp - b.exp as the
\* digits allow.  (The quotients the model forms are of this kind.)
Div(a, b) ==
    LET fits == {j \in 0..DivDigits : (a.int * Pow10(j)) % b.int = 0}
        j == IF fits = {} THEN DivDigits ELSE Least(fits)
    IN  Dec((a.sign + b.sign) % 2, (a.int * Pow10(j)) \div b.int,
            a.exp - b.exp - j)

\* d.quantize(Decimal("1E-p"), ROUND_HALF_UP) of a finite d: the coefficient
\* at exponent -p, a tie rounded away from zero.
Quantize(d, p) ==
    IF d.exp >= 0 - p
    THEN d.int * Pow10(d.exp + p)
    ELSE LET unit == Pow10(0 - p - d.exp)
             q == d.int \div unit
             r == d.int % unit
         IN  IF 2 * r >= unit THEN q + 1 ELSE q

\* str() of the quantized Decimal with coefficient n at exponent -p: the
\* sign (kept by a zero), the integer digits, the point, p digits.
DecStr(sign, n, p) ==
    LET frac == StrOf(n % Pow10(p))
        pad == [i \in 1..(p - Len(frac)) |-> "0"]
    IN  (IF sign = 1 THEN << "-" >> ELSE << >>)
        \o StrOf(n \div Pow10(p)) \o << "." >> \o pad \o frac

\* fmt(d), lines 68-71, of a finite d (quantize raises on Infinity and NaN)
fmt(d) ==
    LET p == IF AtLeastOne(d) THEN 2 ELSE 6
    IN  RStrip(RStrip(DecStr(d.sign, Quantize(d, p), p), {"0"}), {"."})

\* ------------------------------------------------------------- message text
\* The letters of the currency codes.
Spelling ==
    [c \in {"BYN", "EUR", "RUB", "USD", "XXX"} |->
        CASE c = "BYN" -> << "B", "Y", "N" >>
          [] c = "EUR" -> << "E", "U", "R" >>
          [] c = "RUB" -> << "R", "U", "B" >>
          [] c = "USD" -> << "U", "S", "D" >>
          [] c = "XXX" -> << "X", "X", "X" >>]

\* The code a str of three capital letters is (the texts of the model name
\* the codes above only).
CodeOf(s) == CHOOSE c \in DOMAIN Spelling : Spelling[c] = s

\* [-+]?\d+(?:[.,]\d+)?  matches the whole of s
AmountRe(s) ==
    LET u == IF s # << >> /\ s[1] \in {"-", "+"} THEN Tail(s) ELSE s
        seps == {i \in DOMAIN u : u[i] \in {".", ","}}
        spos == IF seps = {} THEN Len(u) + 1 ELSE Least(seps)
        intpart == SubSeq(u, 1, spos - 1)
        fracpart == SubSeq(u, spos + 1, Len(u))
    IN  /\ intpart # << >>
        /\ AllDigits(intpart)
        /\ AllDigits(fracpart)
        /\ seps # {} => fracpart # << >>

\* [A-Z]{3} under re.I matches the whole of s
CodeRe(s) == Len(s) = 3 /\ \A i \in DOMAIN s : IsLetter(s[i])

\* REQ_RE.match(text): the groups amount, from, to as strs, or None.  The
\* pattern is anchored at both ends and its four parts are separated by
\* \s+, so it matches when the text splits at whitespace into an amount, a
\* code, the word "to" and a code.
REQ_RE(text) ==
    LET parts == Split(text)
    IN  IF /\ Len(parts) = 4
           /\ AmountRe(parts[1])
           /\ CodeRe(parts[2])
           /\ Lower(parts[3]) = << "t", "o" >>
           /\ CodeRe(parts[4])
        THEN << [amount |-> parts[1], from |-> parts[2], to |-> parts[4]] >>
        ELSE None

Command == << "/", "c", "o", "n", "v", "e", "r", "t" >>

\* A request: amount, cur_from, cur_to.
Request(amount, from, to) ==
    [reply |-> "none", amount |-> amount, from |-> from, to |-> to]

\* The answer that ends convert_handler before it has a request.
Rejected(reply) ==
    [reply |-> reply, amount |-> Invalid, from |-> "", to |-> ""]

\* Lines 116-125: the request of a match of REQ_RE, or the usage answer.
Explicit(match) ==
    IF match = None THEN Rejected("usage")
    ELSE Request(Decimal(Replace(match[1].amount, << "," >>, << "." >>)),
                 CodeOf(Upper(match[1].from)), CodeOf(Upper(match[1].to)))

\* BareNumber with the bug of leaving out abs() at line 112.
BareNumberSigned(text, quick_amount) ==
    IF quick_amount.kind \in {"num", "inf"}
    THEN IF IsZero(quick_amount) THEN Rejected("zero")
         ELSE IF Positive(quick_amount)
         THEN Request(quick_amount, "BYN", "RUB")
         ELSE Request(quick_amount, "RUB", "BYN")
    ELSE Explicit(REQ_RE(text))

\* Lines 100-114: the try block on quick_amount = Decimal(...); the explicit
\* form is tried in the except branch, which an exception of Decimal() or
\* of a comparison with NaN enters.
BareNumber(text, quick_amount) ==
    IF quick_amount.kind \in {"num", "inf"}
    THEN IF IsZero(quick_amount) THEN Rejected("zero")
         ELSE IF Positive(quick_amount)
         THEN Request(quick_amount, "BYN", "RUB")
         ELSE Request(Abs(quick_amount), "RUB", "BYN")
    ELSE Explicit(REQ_RE(text))

\* Lines 96-125 on the stripped text.
ParseText(text) ==
    IF text = << >> THEN Rejected("format")
    ELSE BareNumber(text, Decimal(Replace(text, << "," >>, << "." >>)))

\* Lines 92-125 of convert_handler on the text m of a message: the request
\* it reads, or the answer it returns with.
Parse(m) == ParseText(Strip(Replace(m, Command, << >>)))

\* ------------------------------------------------------------------- state
VARIABLES
    cache,      \* the module-level dict {"data", "last_date"}
    now,        \* datetime.now(): <<day, minutes since midnight>>
    tasks,      \* the suspended handlers: a bag of coroutine frames
    outcome,    \* what the step just taken ended a handler with: its answer,
                \* or the exception that left it; "none" when no handler ended
    log,        \* what the step just taken logged in get_rates: "updated"
                \* (line 62), "error" (line 64) or "none"
    sent,       \* history: the instants at which the requests in flight
                \* were sent (a bag)
    origin      \* history: the instant at which the request was sent whose
                \* answer cache["data"] was built from

vars == << cache, now, tasks, outcome, log, sent, origin >>

NoReq == << >>
NoOutcome == [type |-> "none"]

\* The frame of a suspended handler: where it waits (pc), which handler it
\* is (kind), convert_handler's cur_from, cur_to and amount (req), the local
\* `rates`.
Frame(p, k, q, r) == [pc |-> p, kind |-> k, req |-> q, rates |-> r]

\* cache = {"data": None, "last_date": None}
Init ==
    /\ cache = [data |-> None, last_date |-> NoDate]
    /\ now = << 0, 600 >>
    /\ tasks = EmptyBag
    /\ outcome = NoOutcome
    /\ log = "none"
    /\ sent = EmptyBag
    /\ origin = NoDate

\* --------------------------------------------------------------- the clock
Later(a, b) == a[1] < b[1] \/ (a[1] = b[1] /\ a[2] < b[2])

TimePoints == Days \X Tods

\* Time passes: datetime.now() moves to the next observed instant.
Tick ==
    /\ \E p \in TimePoints :
          /\ Later(now, p)
          /\ \A q \in TimePoints : ~(Later(now, q) /\ Later(q, p))
          /\ now' = p
    /\ outcome' = NoOutcome
    /\ log' = "none"
    /\ UNCHANGED << cache, tasks >>

\* How many of the suspended handlers fs have their frame in T.
RECURSIVE Copies(_, _)
Copies(fs, T) ==
    IF T = {} THEN 0
    ELSE LET f == CHOOSE f \in T : TRUE
         IN  fs[f] + Copies(fs, T \ {f})

\* The requests to the rates endpoint that are in flight.
InFlight == Copies(tasks, {f \in BagToSet(tasks) : f.pc = "fetching"})

\* ----------------------------------------------------------- the rate cache
\* {i["Cur_Abbreviation"]: i for i in data}: a later record of the array
\* replaces an earlier one of the same code.
RECURSIVE BuildFrom(_, _)
BuildFrom(data, n) ==
    IF n = 0 THEN EmptyTable
    ELSE LET prev == BuildFrom(data, n - 1)
             i == data[n]
         IN  [k \in DOMAIN prev \cup {i.Cur_Abbreviation} |->
                 IF k = i.Cur_Abbreviation THEN i ELSE prev[k]]

\* The comprehension with the bug of keeping the first record of a code.
RECURSIVE BuildFirst(_, _)
BuildFirst(data, n) ==
    IF n = 0 THEN EmptyTable
    ELSE LET prev == BuildFirst(data, n - 1)
             i == data[n]
         IN  [k \in DOMAIN prev \cup {i.Cur_Abbreviation} |->
                 IF k \in DOMAIN prev THEN prev[k] ELSE i]

BuildTableFirst(data) == BuildFirst(data, Len(data))

BuildTable(data) == BuildFrom(data, Len(data))

\* Python truth value of cache["data"]: None and {} are false.
Truthy(d) == d # None /\ DOMAIN d[1] # {}

\* is_cache_expired with the bug of asking only for the date.
ExpiredNoCutoff(c, n) ==
    IF ~Truthy(c.data) THEN TRUE
    ELSE IF n[1] > c.last_date[1] THEN TRUE
    ELSE FALSE

\* is_cache_expired with the bug of refreshing on every call past 11:05.
ExpiredEveryCall(c, n) ==
    IF ~Truthy(c.data) THEN TRUE
    ELSE IF n[1] > c.last_date[1] THEN TRUE
    ELSE IF n[2] > Cutoff THEN TRUE
    ELSE FALSE

\* is_cache_expired with the bug of asking only for the cutoff.
ExpiredNoRollover(c, n) ==
    IF ~Truthy(c.data) THEN TRUE
    ELSE IF n[2] > Cutoff /\ c.last_date[2] < Cutoff THEN TRUE
    ELSE FALSE

\* is_cache_expired(), on the cache c at the instant n
Expired(c, n) ==
    IF ~Truthy(c.data) THEN TRUE
    ELSE IF n[1] > c.last_date[1] THEN TRUE
    ELSE IF n[2] > Cutoff /\ c.last_date[2] < Cutoff THEN TRUE
    ELSE FALSE

is_cache_expired == Expired(cache, now)

\* The dict a reference leads to, as cache["data"] is: None or << table >>.
Deref(r, c) ==
    IF r.at = "none" THEN None
    ELSE IF r.at = "cache" THEN c.data
    ELSE << r.tbl >>

\* The reference get_rates returns: cache["data"] of the cache c.
RefTo(c) == IF c.data = None THEN RefNone ELSE RefCache

\* cache["data"] is assigned a new dict: the frames that refer to the dict
\* it held keep that dict.
Detach(fs, c) ==
    LET old(f) == IF f.rates.at = "cache"
                  THEN [f EXCEPT !.rates = RefOld(c.data[1])] ELSE f
        S == BagToSet(fs)
    IN  [g \in {old(f) : f \in S} |-> Copies(fs, {f \in S : old(f) = g})]

\* ------------------------------------------------------------- the handlers
\* rates["BYN"] = {"Cur_OfficialRate": 1, "Cur_Scale": 1}
BaseRecord == [Cur_OfficialRate |-> 1, Cur_Scale |-> 1]

SetBase(tbl) ==
    [k \in DOMAIN tbl \cup {"BYN"} |-> IF k = "BYN" THEN BaseRecord ELSE tbl[k]]

\* sorted(rates.keys())
RECURSIVE Sorted(_)
Sorted(S) ==
    IF S = {} THEN << >>
    ELSE LET m == CHOOSE x \in S : \A y \in S : Rank(x) <= Rank(y)
         IN  << m >> \o Sorted(S \ {m})

\* rates[code]['Cur_Name'] raises KeyError for some key of the table.
NameMissing(tbl) == \E k \in DOMAIN tbl : "Cur_Name" \notin DOMAIN tbl[k]

\* The name on the BYN line of the header (its Cyrillic letters written in
\* Latin ones, one for one).
BaseName ==
    << "B", "e", "l", "o", "r", "u", "s", "s", "k", "i", "j", " ", "r",
       "u", "b", "l", "'" >>

\* The lines of the /currencies text: the fixed BYN line of the header, then
\* one line per key of the table.
Listing(tbl) ==
    LET codes == Sorted(DOMAIN tbl)
    IN  << << "BYN", BaseName >> >> \o
        [n \in 1..Len(codes) |-> << codes[n], tbl[codes[n]].Cur_Name >>]

\* The title line and the empty line of the header (transliterated as
\* BaseName is).
Title ==
    << "<", "b", ">", "D", "o", "s", "t", "u", "p", "n", "y", "e", " ",
       "v", "a", "l", "u", "t", "y", " ", "(", "N", "B", " ", "R", "B",
       ")", ":", "<", "/", "b", ">", "\n", "\n" >>

\* f"<code>{code}</code> - {name}\n"
Line(code, name) ==
    << "<", "c", "o", "d", "e", ">" >> \o Spelling[code]
    \o << "<", "/", "c", "o", "d", "e", ">", " ", "-", " " >> \o name
    \o << "\n" >>

\* The characters of the lines from the n-th on.
RECURSIVE Lines(_, _)
Lines(L, n) ==
    IF n > Len(L) THEN << >>
    ELSE Line(L[n][1], L[n][2]) \o Lines(L, n + 1)

\* `text` of cmd_currencies, lines 82-84
Text(tbl) == Title \o Lines(Listing(tbl), 1)

\* The length of a slice of line 87.
ChunkSize == 4096

\* text[i : i + 4096]
Chunk(text, i) ==
    SubSeq(text, i + 1, IF i + ChunkSize < Len(text) THEN i + ChunkSize
                        ELSE Len(text))

\* The texts of the messages convert_handler is given: "/convert", "0",
\* "-0,0", "/convert 100", "-50", "1 usd", "10 usd to rub", "5 USD to USD",
\* "-3,005 usd to usd" and "0.1234567 eur  to EUR".
Messages ==
    { Command,
      << "0" >>,
      << "-", "0", ",", "0" >>,
      Command \o << " ", "1", "0", "0" >>,
      << "-", "5", "0" >>,
      << "1", " ", "u", "s", "d" >>,
      << "1", "0", " ", "u", "s", "d", " ", "t", "o", " ", "r", "u", "b" >>,
      << "5", " ", "U", "S", "D", " ", "t", "o", " ", "U", "S", "D" >>,
      << "-", "3", ",", "0", "0", "5", " ", "u", "s", "d", " ", "t", "o", " ",
         "u", "s", "d" >>,
      << "0", ".", "1", "2", "3", "4", "5", "6", "7", " ", "e", "u", "r", " ",
         " ", "T", "O", " ", "E", "U", "R" >> }

\* The characters of the short texts.
Alphabet == {"0", "5", "-", ".", ",", " "}

\* The texts of at most n characters of the alphabet.
RECURSIVE Words(_)
Words(n) ==
    IF n = 0 THEN { << >> }
    ELSE LET W == Words(n - 1)
         IN  W \cup {Append(w, ch) : w \in {v \in W : Len(v) = n - 1},
                                     ch \in Alphabet}

\* Every text of at most MaxLen characters of the alphabet, and "+5",
\* "/convert -5", "1e2", "_5", "inf", "-Infinity", "NaN", "snan",
\* "+0,5 RUB to usd" and "5. usd to rub".
Texts ==
    Words(MaxLen) \cup Messages \cup
    { << "+", "5" >>,
      Command \o << " ", "-", "5" >>,
      << "1", "e", "2" >>,
      << "_", "5" >>,
      << "i", "n", "f" >>,
      << "-", "I", "n", "f", "i", "n", "i", "t", "y" >>,
      << "N", "a", "N" >>,
      << "s", "n", "a", "n" >>,
      << "+", "0", ",", "5", " ", "R", "U", "B", " ", "t", "o", " ",
         "u", "s", "d" >>,
      << "5", ".", " ", "u", "s", "d", " ", "t", "o", " ", "r", "u", "b" >> }

\* What lines 92-125 read from each of these texts (@@ has the function
\* tabulated once).
Parsed == [m \in Texts |-> Parse(m)] @@ << >>

\* fmt on the amounts of the requests with twice the same code, tabulated.
Formatted ==
    [d \in {Parsed[m].amount :
              m \in {t \in Texts : /\ Parsed[t].reply = "none"
                                   /\ Parsed[t].from = Parsed[t].to}} |->
        fmt(d)] @@ << >>

\* A handler returns (or an exception leaves it): `rest` are the handlers
\* still suspended, c the cache it leaves.
Finish(rest, c, res) ==
    /\ cache' = c
    /\ tasks' = rest
    /\ outcome' = res
    /\ UNCHANGED now

\* A handler suspends in the frame f.
Suspend(rest, c, f) ==
    /\ cache' = c
    /\ tasks' = rest (+) SetToBag({f})
    /\ outcome' = NoOutcome
    /\ UNCHANGED now

\* Decimal(str(rec["Cur_OfficialRate"])) / Decimal(str(rec["Cur_Scale"]))
Value(rec) == Div(Dec(0, rec.Cur_OfficialRate, 0), Dec(0, rec.Cur_Scale, 0))

\* Lines 141-155: the answer to the request q = (cur_from, cur_to, amount)
\* with the table tbl, which has both codes.  fmt(amount) raises
\* InvalidOperation on Infinity and leaves the handler.
Convert(q, tbl) ==
    LET amount == q[3]
        val_from == Value(tbl[q[1]])
        val_to == Value(tbl[q[2]])
        res == Div(Mul(amount, val_from), val_to)
    IN  IF amount.kind # "num" THEN [type |-> "InvalidOperation"]
        ELSE [type |-> "result", amount |-> fmt(amount), from |-> q[1],
              res |-> fmt(res), to |-> q[2],
              rate |-> fmt(Div(val_from, val_to))]

\* The requests of the messages that get_rates is called for, and the
\* tables they can be served: the table of a body, with BYN.
Requests ==
    { << Parsed[m].from, Parsed[m].to, Parsed[m].amount >> :
        m \in {t \in Messages : /\ Parsed[t].reply = "none"
                                 /\ Parsed[t].from # Parsed[t].to} }

Served == {SetBase(BuildTable(data)) : data \in Bodies \ {<< >>}}

\* Convert on each of them (where the table has both codes), tabulated.
Converted ==
    [q \in Requests, tbl \in Served |->
        IF q[1] \in DOMAIN tbl /\ q[2] \in DOMAIN tbl
        THEN Convert(q, tbl) ELSE NoOutcome] @@ << >>

\* Resume with the bug of leaving out line 136.
ResumeNoBase(rest, k, q, c) ==
    IF k = "convert"
    THEN IF ~Truthy(c.data)
         THEN Finish(rest, c, [type |-> "rates_unavailable"])
         ELSE LET tbl == c.data[1]
              IN  IF q[1] \notin DOMAIN tbl \/ q[2] \notin DOMAIN tbl
                  THEN Finish(rest, c, [type |-> "not_found"])
                  ELSE Finish(rest, c, Convert(q, tbl))
    ELSE Suspend(rest, c, Frame("closing", k, NoReq, RefTo(c)))

\* The handler of kind k, with cur_from, cur_to, amount = q, goes on after
\* `rates = await get_rates(session)` returned cache["data"] of the cache c:
\* no suspension point lies between that return and the code below.
Resume(rest, k, q, c) ==
    IF k = "convert"
    THEN IF ~Truthy(c.data)
         THEN Finish(rest, c, [type |-> "rates_unavailable"])
         ELSE LET tbl == SetBase(c.data[1])
                  c2 == [c EXCEPT !.data = << tbl >>]
              IN  IF q[1] \notin DOMAIN tbl \/ q[2] \notin DOMAIN tbl
                  THEN Finish(rest, c2, [type |-> "not_found"])
                  ELSE Finish(rest, c2, Converted[q, tbl])
    ELSE \* cmd_currencies: `async with` closes the session, the handler
         \* keeps its reference in `rates`
         Suspend(rest, c, Frame("closing", k, NoReq, RefTo(c)))

\* get_rates with the bug of fetching whatever the cache holds.
get_ratesAlways(k, q) ==
    /\ log' = "none"
    /\ Suspend(tasks, cache, Frame("fetching", k, q, RefNone))

\* get_rates(session) up to its first suspension point: a fresh cache is
\* returned at once, an expired one sends the request and waits.
get_rates(k, q) ==
    /\ log' = "none"
    /\ IF is_cache_expired
       THEN Suspend(tasks, cache, Frame("fetching", k, q, RefNone))
       ELSE Resume(tasks, k, q, cache)

\* The event loop takes a new message while fewer than NumTasks handlers
\* are suspended.
Free == BagCardinality(tasks) < NumTasks

\* convert_handler with the bug of leaving out lines 127-128.
convert_handlerNoShortcut(m) ==
    /\ Free
    /\ LET r == Parsed[m]
       IN  IF r.reply # "none"
           THEN Finish(tasks, cache, [type |-> r.reply]) /\ log' = "none"
           ELSE get_rates("convert", << r.from, r.to, r.amount >>)

\* convert_handler with the bug of loading the rates before it answers.
convert_handlerLoadsFirst(m) ==
    /\ Free
    /\ LET r == Parsed[m]
       IN  get_rates("convert", << r.from, r.to, r.amount >>)

\* convert_handler on a message of text m, up to its first suspension point
convert_handler(m) ==
    /\ Free
    /\ LET r == Parsed[m]
       IN  IF r.reply # "none"
           THEN Finish(tasks, cache, [type |-> r.reply]) /\ log' = "none"
           ELSE IF r.from = r.to
           THEN /\ Finish(tasks, cache,
                          [type |-> "same", amount |-> Formatted[r.amount],
                           to |-> r.to])
                /\ log' = "none"
           ELSE get_rates("convert", << r.from, r.to, r.amount >>)

\* cmd_currencies up to its first suspension point
cmd_currencies ==
    /\ Free
    /\ get_rates("currencies", NoReq)

\* FetchOk with the bug of storing the table without its timestamp.
FetchOkDataOnly(f, data) ==
    /\ log' = "updated"
    /\ BagIn(f, tasks)
    /\ f.pc = "fetching"
    /\ LET rest == Detach(tasks (-) SetToBag({f}), cache)
           c == [cache EXCEPT !.data = << BuildTable(data) >>]
       IN  Resume(rest, f.kind, f.req, c)

\* The answer to f's request is 200 and `data` parses: lines 58-62, then
\* line 65 and the handler's code after the call.  The two awaits of the
\* request (session.get, resp.json) touch no shared state and are one wait
\* here; leaving `async with` releases a response that has been read, which
\* does not suspend.
FetchOk(f, data) ==
    /\ log' = "updated"
    /\ BagIn(f, tasks)
    /\ f.pc = "fetching"
    /\ LET rest == Detach(tasks (-) SetToBag({f}), cache)
           c == [data |-> << BuildTable(data) >>, last_date |-> now]
       IN  Resume(rest, f.kind, f.req, c)

\* FetchFail with the bug of stamping the cache before the status is read.
FetchFailStamps(f, why) ==
    /\ log' = IF why = "status" THEN "none" ELSE "error"
    /\ BagIn(f, tasks)
    /\ f.pc = "fetching"
    /\ why \in FailKinds
    /\ Resume(tasks (-) SetToBag({f}), f.kind, f.req,
              [cache EXCEPT !.last_date = now])

\* The fetch of f fails: nothing is assigned, the exception (if any) is
\* logged, line 65 returns cache["data"] and the handler goes on.
FetchFail(f, why) ==
    /\ log' = IF why = "status" THEN "none" ELSE "error"
    /\ BagIn(f, tasks)
    /\ f.pc = "fetching"
    /\ why \in FailKinds
    /\ Resume(tasks (-) SetToBag({f}), f.kind, f.req, cache)

\* `await message.answer(text[i : i + 4096])` of the loop of lines 86-87,
\* by the handler whose other suspended handlers are `rest`: the slice is
\* sent (res, with the slice as its chunk); the handler is over after the
\* last slice and suspended in the loop before that.
Answer(rest, f, text, i, res) ==
    /\ cache' = cache
    /\ outcome' = [res EXCEPT !.chunk = Chunk(text, i)]
    /\ tasks' = IF i + ChunkSize < Len(text)
                THEN rest (+) SetToBag({Frame("sending", f.kind,
                        [text |-> text, i |-> i + ChunkSize], f.rates)})
                ELSE rest
    /\ UNCHANGED now

\* cmd_currencies after the session closed: lines 79-87, up to the first
\* slice of the text.
CurrenciesReply(f) ==
    /\ BagIn(f, tasks)
    /\ f.pc = "closing"
    /\ log' = "none"
    /\ LET rest == tasks (-) SetToBag({f})
           rates == Deref(f.rates, cache)
       IN  IF ~Truthy(rates)
           THEN Finish(rest, cache, [type |-> "api_error"])
           ELSE IF NameMissing(rates[1])
           THEN \* KeyError leaves the handler before any answer
                Finish(rest, cache, [type |-> "KeyError"])
           ELSE Answer(rest, f, Text(rates[1]), 0,
                       [type |-> "listing", lines |-> Listing(rates[1]),
                        chunk |-> << >>])

\* The loop of lines 86-87 goes on: the next slice of the text.
SendChunk(f) ==
    /\ BagIn(f, tasks)
    /\ f.pc = "sending"
    /\ log' = "none"
    /\ Answer(tasks (-) SetToBag({f}), f, f.req.text, f.req.i,
              [type |-> "chunk", chunk |-> << >>])

\* A step of a specification that keeps no history of the requests.
Unrecorded == UNCHANGED << sent, origin >>

Next ==
    \/ Tick /\ Unrecorded
    \/ \E m \in Messages : convert_handler(m) /\ Unrecorded
    \/ cmd_currencies /\ Unrecorded
    \/ \E f \in BagToSet(tasks), data \in Bodies : FetchOk(f, data)
          /\ Unrecorded
    \/ \E f \in BagToSet(tasks), why \in FailKinds : FetchFail(f, why)
          /\ Unrecorded
    \/ \E f \in BagToSet(tasks) : CurrenciesReply(f) /\ Unrecorded

Spec == Init /\ [][Next]_vars

\* The handlers run one after the other and every fetch succeeds.
NextSeq ==
    \/ Tick /\ Unrecorded
    \/ tasks = EmptyBag /\ \E m \in Messages : convert_handler(m) /\ Unrecorded
    \/ tasks = EmptyBag /\ cmd_currencies /\ Unrecorded
    \/ \E f \in BagToSet(tasks), data \in Bodies : FetchOk(f, data)
          /\ Unrecorded
    \/ \E f \in BagToSet(tasks) : CurrenciesReply(f) /\ Unrecorded

SpecSeq == Init /\ [][NextSeq]_vars

\* The convert requests of any text, one at a time, while the endpoint
\* answers every request with a 500.
NextParse ==
    \/ Tick /\ Unrecorded
    \/ tasks = EmptyBag /\ \E m \in Texts : convert_handler(m) /\ Unrecorded
    \/ \E f \in BagToSet(tasks) : FetchFail(f, "status") /\ Unrecorded

SpecParse == Init /\ [][NextParse]_vars

\* A name of n characters.
LongName(n) == [i \in 1..n |-> "x"]

\* Bodies whose listing is longer than two slices: a EUR line that ends 5
\* characters before the first slice does, or exactly where it does, or 3
\* characters after it, then a USD line longer than a slice.
LongBodies ==
    { << Rec("EUR", LongName(ChunkSize - Len(Title) - Len(Line("BYN", BaseName))
                             - Len(Line("EUR", << >>)) + d), 5, 1),
         Rec("USD", LongName(ChunkSize), 3, 1) >> : d \in {0 - 5, 0, 3} }

\* /currencies requests alone, every fetch answered with a long body.
NextListing ==
    \/ cmd_currencies /\ Unrecorded
    \/ \E f \in BagToSet(tasks), data \in LongBodies : FetchOk(f, data)
          /\ Unrecorded
    \/ \E f \in BagToSet(tasks) : CurrenciesReply(f) /\ Unrecorded
    \/ \E f \in BagToSet(tasks) : SendChunk(f) /\ Unrecorded

SpecListing == Init /\ [][NextListing]_vars

\* History of a step that calls get_rates: a request it sent was sent now.
Sends ==
    /\ sent' = IF InFlight' > InFlight THEN sent (+) SetToBag({now}) ELSE sent
    /\ UNCHANGED origin

\* History of a step that ends the request sent at t: the table stored (if
\* one is) is the answer to that request.
Returns(t, stored) ==
    /\ BagIn(t, sent)
    /\ sent' = sent (-) SetToBag({t})
    /\ origin' = IF stored THEN t ELSE origin

\* Requests to convert 50 RUB to BYN, overlapping, with the history of when
\* each request to the endpoint was sent.  The handlers suspended in the
\* request all have the same frame, so any of the instants in `sent` is the
\* instant the ending request was sent.
NextIssued ==
    \/ Tick /\ Unrecorded
    \/ convert_handler(<< "-", "5", "0" >>) /\ Sends
    \/ \E f \in BagToSet(tasks), data \in Bodies, t \in BagToSet(sent) :
          FetchOk(f, data) /\ Returns(t, TRUE)
    \/ \E f \in BagToSet(tasks), t \in BagToSet(sent) :
          FetchFail(f, "status") /\ Returns(t, FALSE)

SpecIssued == Init /\ [][NextIssued]_vars

TypeOK ==
    /\ IsABag(tasks)
    /\ BagCardinality(tasks) <= NumTasks
    /\ \A f \in BagToSet(tasks) : f.rates.at = "cache" => cache.data # None

\* -------------------------------------------------------------- properties
\* A table is cached (cache["data"] is a dict, possibly an empty one).
Cached == cache.data # None

\* C1: overlapping get_rates calls on a stale cache issue one fetch: at no
\* point are two requests to the rates endpoint in flight.
OneFetchInFlight == InFlight <= 1

\* C2: a convert request leaves the content of cache["data"] as the last
\* successful fetch built it: its steps change the cached table only by
\* storing the table built from the answer, and never add BYN to it.
ConvertKeepsCachedTable ==
    [][ /\ \A m \in Messages : convert_handler(m) => cache'.data = cache.data
        /\ \A f \in BagToSet(tasks) : f.kind = "convert" =>
              /\ \A why \in FailKinds :
                    FetchFail(f, why) => cache'.data = cache.data
              /\ \A data \in Bodies :
                    FetchOk(f, data) => cache'.data = << BuildTable(data) >>
      ]_vars

\* C3: a /currencies request that obtained a non-empty table answers with
\* the listing: BYN first and once, then one line per fetched code with its
\* name, codes ascending; it never ends without an answer.
CurrenciesAnswersListing ==
    [][ \A f \in BagToSet(tasks) :
          (CurrenciesReply(f) /\ Truthy(Deref(f.rates, cache))) =>
             /\ outcome'.type = "listing"
             /\ LET L == outcome'.lines
                    tbl == Deref(f.rates, cache)[1]
                    fetched == DOMAIN tbl \ {"BYN"}
                IN  /\ L[1][1] = "BYN"
                    /\ Cardinality({n \in DOMAIN L : L[n][1] = "BYN"}) = 1
                    /\ Len(L) = 1 + Cardinality(fetched)
                    /\ \A n \in 2..Len(L) :
                          /\ L[n][1] \in fetched
                          /\ L[n][2] = tbl[L[n][1]].Cur_Name
                    /\ \A n \in 2..(Len(L) - 1) :
                          Rank(L[n][1]) < Rank(L[n + 1][1])
      ]_vars

\* The messages that make convert_handler call get_rates.
CallsGetRates(m) == Parsed[m].reply = "none" /\ Parsed[m].from # Parsed[m].to

\* A handler calls get_rates in this step.
GetRatesCalled ==
    \/ cmd_currencies
    \/ \E m \in Messages : CallsGetRates(m) /\ convert_handler(m)

\* C4: a table is cached, its fetch was today before 11:05 and it is 11:05
\* or later (11:05:00 included): the cache is reported stale.
CutoffRule ==
    ( /\ Cached
      /\ cache.last_date[1] = now[1]
      /\ cache.last_date[2] < Cutoff
      /\ now[2] >= Cutoff ) => is_cache_expired

\* What line 47 does give (C4 without the instant 11:05:00 itself): a table
\* is cached, its fetch was today before 11:05 and it is later than
\* 11:05:00: the cache is reported stale and a get_rates call sends a request.
CutoffRuleStrict ==
    [][ ( /\ Cached
          /\ cache.last_date[1] = now[1]
          /\ cache.last_date[2] < Cutoff
          /\ now[2] > Cutoff )
        => /\ is_cache_expired
           /\ GetRatesCalled => InFlight' = InFlight + 1 ]_vars

\* A request is in flight for a non-empty table of this morning, past the
\* cutoff.
CutoffCrossed ==
    /\ Truthy(cache.data)
    /\ cache.last_date[1] = now[1]
    /\ cache.last_date[2] < Cutoff
    /\ now[2] > Cutoff
    /\ InFlight > 0

\* C5: a table is cached and the date is later than the date of its fetch:
\* the cache is reported stale, whatever the two times of day.
DateRollover ==
    (Cached /\ now[1] > cache.last_date[1]) => is_cache_expired

\* C5 witness: the date rolled over and the cutoff rule does not apply (the
\* fetch was after 11:05, it is before 11:05).
DateRolloverOnly ==
    /\ Truthy(cache.data)
    /\ now[1] > cache.last_date[1]
    /\ cache.last_date[2] > Cutoff
    /\ now[2] < Cutoff
    /\ InFlight > 0

\* The date has not changed since the fetch, and it is not the case that it
\* is 11:05 or later with a fetch from before 11:05.
NotStale ==
    /\ ~(now[1] > cache.last_date[1])
    /\ ~(now[2] >= Cutoff /\ cache.last_date[2] < Cutoff)

\* C6, as claimed: a table is cached (whatever its content, the empty one
\* too) and no staleness rule applies: a get_rates call sends no request.
FreshCacheNoFetch ==
    [][ (Cached /\ NotStale /\ GetRatesCalled) => InFlight' = InFlight ]_vars

\* C6, amended: a non-empty table is cached and no staleness rule applies:
\* a get_rates call sends no request and returns the cached table
\* (cmd_currencies holds a reference to it, convert_handler answers from it).
FreshTableNoFetch ==
    [][ (Truthy(cache.data) /\ NotStale /\ GetRatesCalled) =>
          /\ InFlight' = InFlight
          /\ log' = "none"
          /\ cache'.last_date = cache.last_date
          /\ cmd_currencies =>
                /\ cache' = cache
                /\ tasks' = tasks (+) SetToBag(
                      {Frame("closing", "currencies", NoReq, RefCache)})
          /\ (\E m \in Messages : CallsGetRates(m) /\ convert_handler(m)) =>
                /\ tasks' = tasks
                /\ outcome'.type \in {"result", "not_found"}
                /\ cache'.data \in {cache.data, << SetBase(cache.data[1]) >>}
      ]_vars

\* C6 witness: later on the day of the fetch a /currencies handler was
\* handed the cached table.
ServedFromCache ==
    /\ Truthy(cache.data)
    /\ cache.last_date[1] = now[1]
    /\ cache.last_date[2] < now[2]
    /\ ~is_cache_expired
    /\ InFlight = 0
    /\ \E f \in BagToSet(tasks) : f.pc = "closing" /\ f.rates = RefCache

\* C7: a failed fetch leaves the cache as it was, no exception leaves
\* get_rates, and get_rates returns cache["data"]: cmd_currencies holds a
\* reference to the cached dict (None if there is none); convert_handler
\* answers from it, and the only write is its own line 136 after the return.
FailedFetchKeepsCache ==
    [][ \A f \in BagToSet(tasks), why \in FailKinds : FetchFail(f, why) =>
          /\ cache'.last_date = cache.last_date
          /\ log' \in {"none", "error"}
          /\ f.kind = "currencies" =>
                /\ cache' = cache
                /\ outcome' = NoOutcome
                /\ tasks' = (tasks (-) SetToBag({f})) (+)
                      SetToBag({Frame("closing", "currencies", NoReq,
                                      IF Cached THEN RefCache ELSE RefNone)})
          /\ f.kind = "convert" =>
                /\ tasks' = tasks (-) SetToBag({f})
                /\ IF Truthy(cache.data)
                   THEN /\ cache'.data \in
                              {cache.data, << SetBase(cache.data[1]) >>}
                        /\ outcome'.type \in {"result", "not_found"}
                   ELSE /\ cache'.data = cache.data
                        /\ outcome'.type = "rates_unavailable"
      ]_vars

\* C7 witness: an exception has just been logged, the table cached before
\* is still cached and a /currencies handler holds it.
FailedFetchServedCache ==
    /\ log = "error"
    /\ Truthy(cache.data)
    /\ is_cache_expired
    /\ \E f \in BagToSet(tasks) : f.pc = "closing" /\ f.rates = RefCache

\* C8: the cached table is absent if and only if the timestamp is absent,
\* in every state a handler can be scheduled in.
TableIffTimestamp == (cache.data = None) <=> (cache.last_date = NoDate)

\* C8 witness: a fetch has just stored a table while another request is
\* still in flight.
StoredWhileInFlight ==
    /\ log = "updated"
    /\ Cached
    /\ cache.last_date # NoDate
    /\ InFlight > 0

\* The table a body makes: its codes, each with the last record of the code.
IsTableOf(tbl, data) ==
    /\ DOMAIN tbl = {data[n].Cur_Abbreviation : n \in DOMAIN data}
    /\ \A k \in DOMAIN tbl :
          \E n \in DOMAIN data :
             /\ data[n].Cur_Abbreviation = k
             /\ tbl[k] = data[n]
             /\ \A j \in DOMAIN data : data[j].Cur_Abbreviation = k => j <= n

\* C9: a fetch that succeeds replaces the cached table by the mapping
\* code -> record of the answer, stamps it with the time of completion, and
\* the same get_rates call returns the new table: cmd_currencies holds a
\* reference to it, convert_handler answers from it.
SuccessfulFetchReplaces ==
    [][ \A f \in BagToSet(tasks), data \in Bodies : FetchOk(f, data) =>
          /\ cache'.last_date = now
          /\ cache'.data # None
          /\ f.kind = "currencies" =>
                /\ IsTableOf(cache'.data[1], data)
                /\ BagIn(Frame("closing", "currencies", NoReq, RefCache), tasks')
                /\ BagCardinality(tasks') = BagCardinality(tasks)
          /\ f.kind = "convert" =>
                /\ LET tbl == cache'.data[1]
                       fetched == [k \in DOMAIN tbl \ {"BYN"} |-> tbl[k]]
                   IN  \/ IsTableOf(tbl, data)
                       \/ /\ IsTableOf(fetched, data)
                          /\ "BYN" \in DOMAIN tbl
                          /\ tbl["BYN"] = BaseRecord
                /\ LET codes == {data[n].Cur_Abbreviation : n \in DOMAIN data}
                   IN  IF codes = {} THEN outcome'.type = "rates_unavailable"
                       ELSE IF {f.req[1], f.req[2]} \subseteq codes \cup {"BYN"}
                       THEN outcome'.type = "result"
                       ELSE outcome'.type = "not_found"
      ]_vars

\* C9 witness: a fetch has just replaced a table another handler still
\* holds, and a /currencies handler holds the new one.
ReplacedOlderTable ==
    /\ log = "updated"
    /\ cache.last_date = now
    /\ \E f \in BagToSet(tasks) : f.pc = "closing" /\ f.rates = RefCache
    /\ \E f \in BagToSet(tasks) :
          /\ f.rates.at = "old"
          /\ << f.rates.tbl >> # cache.data

\* C10, as claimed: calls one after the other, every fetch succeeding: once
\* a fetch has succeeded at or after 11:05, no later call of that day sends
\* a request.
OneRefreshAfterCutoff ==
    [][ ( /\ Cached
          /\ cache.last_date[1] = now[1]
          /\ cache.last_date[2] >= Cutoff ) => InFlight' <= InFlight ]_vars

\* C10, amended: the same, once a fetch has succeeded at or after 11:05
\* with a non-empty table.
OneRefreshAfterCutoffTable ==
    [][ ( /\ Truthy(cache.data)
          /\ cache.last_date[1] = now[1]
          /\ cache.last_date[2] >= Cutoff ) => InFlight' <= InFlight ]_vars

\* C10 witness: a call made later on the day of a fetch at or after 11:05
\* was handed the cached table.
ServedAfterCutoff ==
    /\ Truthy(cache.data)
    /\ cache.last_date[1] = now[1]
    /\ cache.last_date[2] >= Cutoff
    /\ now[2] > cache.last_date[2]
    /\ \E f \in BagToSet(tasks) : f.pc = "closing" /\ f.rates = RefCache

\* The messages of a request with twice the same code.
EqualCodes ==
    {m \in Messages : Parsed[m].reply = "none" /\ Parsed[m].from = Parsed[m].to}

\* C11: a convert request whose two codes are equal is answered with its
\* own amount in that currency, sends no request to the rates endpoint and
\* leaves both fields of the cache as they are, whatever the cache holds.
EqualCodesShortcut ==
    [][ \A m \in EqualCodes :
          convert_handler(m) =>
             /\ outcome' = [type |-> "same", amount |-> fmt(Parsed[m].amount),
                            to |-> Parsed[m].to]
             /\ tasks' = tasks
             /\ InFlight' = InFlight
             /\ cache' = cache
             /\ log' = "none"
      ]_vars

\* C11 witness: an equal-codes request has just been answered while no
\* table has ever been cached.
EqualCodesOnEmptyCache ==
    /\ outcome.type = "same"
    /\ outcome.to = "USD"
    /\ cache = [data |-> None, last_date |-> NoDate]

\* The messages convert_handler reads no request from.
Unreadable == {m \in Messages : Parsed[m].reply # "none"}

\* C14: a convert request that ends in a usage error (no text, a zero
\* amount, a text neither form reads) is answered once and the handler is
\* over: no request is sent, both fields of the cache stay as they are.
UsageErrorOneReply ==
    [][ \A m \in Unreadable :
          convert_handler(m) =>
             /\ Parsed[m].reply \in {"format", "zero", "usage"}
             /\ outcome' = [type |-> Parsed[m].reply]
             /\ tasks' = tasks
             /\ InFlight' = InFlight
             /\ cache' = cache
             /\ log' = "none"
      ]_vars

\* C14 witness: a zero amount has just been refused while the cached table
\* is stale and another handler waits for its fetch.
UsageErrorOnStaleCache ==
    /\ outcome.type \in {"format", "zero", "usage"}
    /\ Truthy(cache.data)
    /\ is_cache_expired
    /\ InFlight > 0

\* The messages of a request between two different codes.
CrossCurrency == {m \in Messages : CallsGetRates(m)}

\* The answer to a request (cur_from, cur_to) = (q[1], q[2]) served with
\* the non-empty table tbl: "not found" exactly when one of the two codes
\* is neither BYN nor a code of tbl, else the result.
NotFoundIffAbsent(q, tbl) ==
    LET known == DOMAIN tbl \cup {"BYN"}
    IN  IF q[1] \in known /\ q[2] \in known
        THEN outcome'.type = "result" /\ outcome'.from = q[1] /\ outcome'.to = q[2]
        ELSE outcome' = [type |-> "not_found"]

\* C15: a request between two different codes that is served a non-empty
\* table (just fetched, or the cached one after a failed fetch or when
\* fresh) is refused with "currency not found" if and only if one of its
\* codes is absent from that table with BYN added; the refusal carries no
\* result.
NotFoundIffUnknown ==
    [][ /\ \A f \in BagToSet(tasks) : f.kind = "convert" =>
              /\ \A data \in Bodies \ {<< >>} :
                    FetchOk(f, data) =>
                       NotFoundIffAbsent(f.req, BuildTable(data))
              /\ \A why \in FailKinds :
                    (Truthy(cache.data) /\ FetchFail(f, why)) =>
                       NotFoundIffAbsent(f.req, cache.data[1])
        /\ \A m \in CrossCurrency :
              (~is_cache_expired /\ convert_handler(m)) =>
                 NotFoundIffAbsent(<< Parsed[m].from, Parsed[m].to >>,
                                   cache.data[1])
      ]_vars

\* C15 witness: a request served the cached table (USD, EUR, and BYN added)
\* has just been refused because the table lacks RUB.
UnknownCodeRefused ==
    /\ outcome.type = "not_found"
    /\ Truthy(cache.data)
    /\ "RUB" \notin DOMAIN cache.data[1]
    /\ "USD" \in DOMAIN cache.data[1]
    /\ log = "none"

\* The cut of `text` after its b-th character falls inside markup: inside
\* a tag (a "<" with no ">" after it lies before the cut) or inside an
\* element (more opening than closing tags lie before the cut).
InsideMarkup(text, b) ==
    LET lt == {j \in 1..b : text[j] = "<"}
        gt == {j \in 1..b : text[j] = ">"}
        closing == {j \in lt : j < Len(text) /\ text[j + 1] = "/"}
    IN  \/ \E j \in lt : \A k \in gt : k < j
        \/ Cardinality(lt \ closing) > Cardinality(closing)

\* The handler f sends, in this step, the slice of `text` that follows the
\* i characters it has sent: at most 4096 characters, the next ones of the
\* text; it is over if and only if the text is sent to its end; a cut that
\* is not the end of the text is not inside markup.
SendsNextSlice(f, text, i) ==
    LET c == outcome'.chunk
        b == i + Len(c)
        rest == tasks (-) SetToBag({f})
    IN  /\ 0 < Len(c) /\ Len(c) <= ChunkSize
        /\ b <= Len(text)
        /\ c = SubSeq(text, i + 1, b)
        /\ IF b = Len(text) THEN tasks' = rest
           ELSE /\ \E g \in BagToSet(tasks') :
                      /\ g.pc = "sending"
                      /\ g.req = [text |-> text, i |-> b]
                      /\ tasks' = rest (+) SetToBag({g})
                /\ ~InsideMarkup(text, b)

\* C16: the /currencies text is sent as consecutive slices of at most 4096
\* characters that make up the text in the order sent, and no slice ends
\* inside the markup of a line (a tag or a <code>, <b> element).
ChunksSplitOutsideMarkup ==
    [][ \A f \in BagToSet(tasks) :
          /\ ( /\ CurrenciesReply(f)
               /\ Truthy(Deref(f.rates, cache))
               /\ ~NameMissing(Deref(f.rates, cache)[1]) ) =>
                SendsNextSlice(f, Text(Deref(f.rates, cache)[1]), 0)
          /\ SendChunk(f) => SendsNextSlice(f, f.req.text, f.req.i)
      ]_vars

\* The same without the markup clause: the slices are consecutive, at most
\* 4096 characters long and make up the text.
ChunksMakeUpText ==
    [][ \A f \in BagToSet(tasks) :
          SendChunk(f) =>
             /\ Len(outcome'.chunk) <= ChunkSize
             /\ outcome'.chunk =
                   SubSeq(f.req.text, f.req.i + 1,
                          f.req.i + Len(outcome'.chunk))
             /\ (f.req.i + Len(outcome'.chunk) = Len(f.req.text))
                   <=> (tasks' = tasks (-) SetToBag({f}))
      ]_vars

\* The text is a single signed decimal number: an optional sign, digits,
\* and optionally a point or a comma followed by digits.
IsNumber(t) ==
    LET u == IF t # << >> /\ t[1] \in {"-", "+"} THEN Tail(t) ELSE t
        seps == {i \in DOMAIN u : u[i] \in {".", ","}}
    IN  /\ u # << >>
        /\ \A i \in DOMAIN u \ seps : IsDigit(u[i])
        /\ Cardinality(seps) <= 1
        /\ \A i \in seps : 1 < i /\ i < Len(u)

\* The magnitude of such a number: its digits as an integer, and how many
\* of them follow the separator.
Magnitude(t) ==
    LET digits == SelectSeq(t, IsDigit)
        seps == {i \in DOMAIN t : t[i] \in {".", ","}}
    IN  Dec(0, IntOf(digits), IF seps = {} THEN 0
                              ELSE (CHOOSE i \in seps : TRUE) - Len(t))

\* What a message text says, alone or after the command and a space.
Said(m) ==
    LET cmd == Command \o << " " >>
    IN  IF Len(m) > Len(cmd) /\ SubSeq(m, 1, Len(cmd)) = cmd
        THEN SubSeq(m, Len(cmd) + 1, Len(m)) ELSE m

\* The texts that say one signed decimal number.
Numbers == {m \in Texts : IsNumber(Said(m))}

\* C12: a message that is one signed decimal number n is refused with the
\* zero-amount answer when n = 0, asks for the rates with (n, BYN, RUB)
\* when n > 0 and with (|n|, RUB, BYN) when n < 0; it is never read by the
\* explicit form (no usage answer, no other pair).
BareNumberShortcut ==
    [][ \A m \in Numbers :
          convert_handler(m) =>
             LET t == Said(m)
                 n == Magnitude(t)
                 q == IF t[1] = "-" THEN << "RUB", "BYN", n >>
                      ELSE << "BYN", "RUB", n >>
             IN  IF n.int = 0
                 THEN outcome' = [type |-> "zero"] /\ tasks' = tasks
                 ELSE /\ outcome' = NoOutcome
                      /\ tasks' = tasks (+) SetToBag(
                            {Frame("fetching", "convert", q, RefNone)})
      ]_vars

\* C12 witness: the text "-55" made the handler ask for the rates to
\* convert 55 RUB to BYN.
NegativeNumberReversed ==
    BagIn(Frame("fetching", "convert", << "RUB", "BYN", Dec(0, 55, 0) >>,
                RefNone), tasks)

\* The text s writes the Decimal d rounded half-up to p fractional digits:
\* same sign, at most p digits after the point, at most half a unit of the
\* last of the p places away from d and further from zero on a tie, no zero
\* at the end of the fraction and no point at the end.
RoundedTo(s, d, p) ==
    LET t == Decimal(s)
        e == IF d.exp < 0 - p THEN d.exp ELSE 0 - p
        D == d.int * Pow10(d.exp - e)
        T == t.int * Pow10(t.exp - e)
        unit == Pow10(0 - p - e)
        diff == IF D >= T THEN D - T ELSE T - D
    IN  /\ t.kind = "num"
        /\ t.sign = d.sign
        /\ t.exp >= 0 - p
        /\ 2 * diff <= unit
        /\ 2 * diff = unit => T > D
        /\ s[Len(s)] # "."
        /\ (\E i \in DOMAIN s : s[i] = ".") => s[Len(s)] # "0"

\* C13: the amount an answer shows is the request's amount rounded half-up
\* to 2 fractional digits when its absolute value is at least 1 (negative
\* amounts included) and to 6 when it is below 1, without zeros at the end
\* of the fraction and without a point at the end.
FmtRoundsByMagnitude ==
    [][ \A m \in EqualCodes :
          convert_handler(m) =>
             LET d == Parsed[m].amount
             IN  RoundedTo(outcome'.amount, d,
                           IF AtLeastOne(Abs(d)) THEN 2 ELSE 6)
      ]_vars

\* The same for the amounts that are not negative, where fmt does so.
FmtRoundsPositive ==
    [][ \A m \in EqualCodes :
          convert_handler(m) /\ Parsed[m].amount.sign = 0 =>
             LET d == Parsed[m].amount
             IN  RoundedTo(outcome'.amount, d,
                           IF AtLeastOne(Abs(d)) THEN 2 ELSE 6)
      ]_vars

\* Stale by the three rules: no table has been fetched, or the date is
\* later than the date of the last fetch, or it is 11:05 or later and the
\* last fetch was before 11:05.
StaleByRules == ~Cached \/ ~NotStale

\* C17: while the cache is stale by the three rules, every get_rates call
\* sends a request, every step other than a successful fetch leaves the
\* cache stale, and a successful fetch ends the staleness.
StaleUntilRepaired ==
    [][ StaleByRules =>
          /\ GetRatesCalled => InFlight' = InFlight + 1
          /\ log' # "updated" => StaleByRules'
          /\ log' = "updated" => ~StaleByRules'
      ]_vars

\* What the code gives, with staleness as is_cache_expired reports it (C17
\* without the instant 11:05:00, and an empty table being no table): every
\* get_rates call sends a request, every step other than a successful fetch
\* leaves the cache expired, and a successful fetch of a non-empty table
\* ends it.
ExpiredUntilRepaired ==
    [][ is_cache_expired =>
          /\ GetRatesCalled => InFlight' = InFlight + 1
          /\ log' # "updated" => is_cache_expired'
          /\ (log' = "updated" /\ Truthy(cache'.data)) => ~is_cache_expired'
      ]_vars

\* C18: a get_rates call at 11:05 or later that sends no request and serves
\* the cached table serves a table that answers a request sent at 11:05 or
\* later on that day.
FreshAfterCutoffIsPostCutoff ==
    [][ ( /\ now[2] >= Cutoff
          /\ Truthy(cache.data)
          /\ GetRatesCalled
          /\ InFlight' = InFlight )
        => origin[1] = now[1] /\ origin[2] >= Cutoff ]_vars

\* The same for the calls later than 11:05:00 on a table stamped later than
\* 11:05:00 (the instant 11:05:00 itself left out).
FreshPastCutoffIsPostCutoff ==
    [][ ( /\ now[2] > Cutoff
          /\ Truthy(cache.data)
          /\ cache.last_date[2] > Cutoff
          /\ GetRatesCalled
          /\ InFlight' = InFlight )
        => origin[1] = now[1] /\ origin[2] >= Cutoff ]_vars

\* C19: a successful fetch never replaces the cached table by the answer to
\* a request sent earlier than the one the cached table answers.
CacheNeverRegresses ==
    [][ (log' = "updated" /\ origin # NoDate) => ~Later(origin', origin) ]_vars

====
